---- MODULE Spec2Model ----
(***************************************************************************)
(* XMLtoExcel: the section flattening of gelenParse.py / sonucParse.py,    *)
(* the namespace loop in front of it, and the application of main.py and   *)
(* functions.py around it.                                                 *)
(*                                                                         *)
(*   Spec       the sections of gelenParse.py                              *)
(*   SpecSonuc  the sections of sonucParse.py                              *)
(*   SpecStrip  the namespace loop of both scripts and of beyannameno.py   *)
(*   SpecApp    main.py: imports, line edits, Process; functions.py        *)
(*   SpecBeyanname  beyannamenogetter of beyannameno.py                    *)
(*                                                                         *)
(* The script is straight-line code: for each section of the declaration   *)
(* it looks the section element up (find), lists its row elements          *)
(* (findall), walks every row with Element.iter(), zips the first row's    *)
(* tags with each row's texts into a dict, grows a DataFrame one row at a  *)
(* time and hands it to the ExcelWriter; writer.save() is the last line.   *)
(*                                                                         *)
(* An element is a record [tag, text, kids].  Python's None is the string  *)
(* None when it is a text, and the empty tuple when it is a missing        *)
(* element or a name that was never assigned; a present element or an      *)
(* assigned DataFrame is a one-element tuple.                              *)
(*                                                                         *)
(* The document is read as the script reaches it: the element a find       *)
(* returns is drawn when the find runs.  Every section has its own names   *)
(* in the script (firma_headers, kalemler_headers, ..; df_firma, df_kalem, *)
(* ..) and never reads them again once its sheet is written, so the model  *)
(* keeps one set of them and forgets their values when control moves on.   *)
(*                                                                         *)
(* The six section loops of gelenParse.py and the seven of sonucParse.py    *)
(* are the same statements under other names; LoopStep is that loop body.  *)
(*                                                                         *)
(* pandas is modelled by what the calls do in pandas 1.x: dict(zip(..))    *)
(* keeps one key per distinct tag (first position, last value),            *)
(* DataFrame(d, index=[0]) is one row, DataFrame.append is an outer        *)
(* concatenation that keeps the left frame's column order.                 *)
(***************************************************************************)
EXTENDS Integers, Sequences, FiniteSets, TLC

\* Bounds of the documents explored.
MaxRows == 2      \* row elements under one section
MaxKids == 2      \* children of one row element
MaxEls == 3       \* elements of a document whose namespaces are stripped

None == "None"    \* Element.text of a node without text
NaN == "NaN"      \* pandas' missing value

VARIABLES
    sec,        \* index in GelenScript of the section being processed
    pc,         \* position inside that section
    section,    \* result of find: <<>> (None) or <<element>>
    lineitems,  \* result of findall: the row elements
    i,          \* number of rows the for loop has consumed
    headers,    \* xxx_headers
    hdr_count,  \* xxx_headers_count
    count,      \* xxx_count
    df,         \* df_xxx: <<>> while the name is unassigned, else <<frame>>
    writer,     \* sheet names handed to the ExcelWriter, in order
    saved,      \* writer.save() has run
    error       \* the exception that ended the script, or "none"

\* sonucParse.py reads one section twice and keeps the first table.
VARIABLES
    root,        \* the part of the tree a later find reads again: <<>> or
                 \* <<[tag, el]>>, el being what find returned for tag
    df_vergitop  \* df_vergitop, kept while df_vergitoplnn is made

\* The namespace-stripping loop in front of the sections.
VARIABLES
    it,          \* tags of the elements iterparse yields, in parse order
    el           \* number of elements the "for _, el in it" loop has taken

\* main.py and functions.py: the application around the scripts.
VARIABLES
    ppc,            \* the statement of main.py control is at
    gelenlineEdit,  \* text of the Gelen line edit
    sonucLineEdit,  \* text of the Sonuc line edit
    filelistgelen,  \* Process's list of that name
    filelistsonuc,  \* Process's list of that name
    messageboxes,   \* titles of the QMessageBox.about boxes shown, in order
    progressbar,    \* the last progressbar.setValue(count)
    writers,        \* who has called excel_writer(), in order
    dosyadurumu,    \* the dosyadurumu attribute of the three functions
    cwd,            \* os.getcwd()
    raised,         \* the exception that ended the application, or "none"
    desktop,        \* the Desktop folder: "ok", "readonly" or "missing"
    dirs,           \* the working directories that exist
    files           \* os.listdir of the input directory

\* beyannameno.py: beyannamenogetter(filelistsonuc, sonuc_dict).
VARIABLES
    disk,        \* what iterparse finds under each file name
    filelist,    \* the parameter filelistsonuc
    nfile,       \* number of names the "for filename in" loop has taken
    sonuc_dict,  \* the dictionary passed in, which the function writes to
    passed,      \* that dictionary as it was when the function was called
    bpc          \* "for", "returned", or the exception that left the call

beyanname == <<disk, filelist, nfile, sonuc_dict, passed, bpc>>

app == <<ppc, gelenlineEdit, sonucLineEdit, filelistgelen, filelistsonuc,
         messageboxes, progressbar, writers, dosyadurumu, cwd, raised,
         desktop, dirs, files>>

\* The names of the section scripts.
script == <<sec, pc, section, lineitems, i, headers, hdr_count, count, df,
            writer, saved, error>>

\* What neither section script touches.
outside == <<it, el, app, beyanname>>

\* What gelenParse.py's sections do not touch.
elsewhere == <<root, df_vergitop, outside>>

\* What the namespace loop does not touch.
later == <<sec, section, lineitems, i, headers, hdr_count, count, df, writer,
           saved, root, df_vergitop, app, beyanname>>

\* What the application's own statements do not touch.
scripts == <<script, root, df_vergitop, it, el, beyanname>>

\* What beyannamenogetter does not touch.
around == <<script, root, df_vergitop, it, el, app>>

vars == <<script, elsewhere>>

-----------------------------------------------------------------------------
(* The sections of gelenParse.py, in script order. *)

GelenScript == <<
    [kind |-> "children", tag |-> "BeyannameBilgi",   row |-> "",            sheet |-> "Beyanname"],
    [kind |-> "loop",     tag |-> "Firma_bilgi",      row |-> "firma",       sheet |-> "FirmaBilgi"],
    [kind |-> "findonly", tag |-> "Teminat",          row |-> "",            sheet |-> ""],
    [kind |-> "first",    tag |-> "Ozetbeyanlar",     row |-> "Ozetbeyan",   sheet |-> "Ozetbeyanlar"],
    [kind |-> "loop",     tag |-> "Kalemler",         row |-> "kalem",       sheet |-> "Kalem"],
    [kind |-> "loop",     tag |-> "Sorular_cevaplar", row |-> "Soru_Cevap",  sheet |-> "SorularCevaplar"],
    [kind |-> "loop",     tag |-> "Dokumanlar",       row |-> "Dokuman",     sheet |-> "Dokumanlar"],
    [kind |-> "loop",     tag |-> "Vergiler",         row |-> "Vergi",       sheet |-> "Vergiler"],
    [kind |-> "kiymet",   tag |-> "KiymetBildirim",   row |-> "Kiymet",      sheet |-> ""],
    [kind |-> "loop",     tag |-> "KiymetKalemler",   row |-> "KiymetKalem", sheet |-> "KiymetBildirim"] >>

Cur == GelenScript[sec]

-----------------------------------------------------------------------------
(* Elements. *)

Min(a, b) == IF a <= b THEN a ELSE b

RECURSIVE Size(_), SizeAll(_)
\* Number of nodes of an element, itself included.
Size(e) == 1 + SizeAll(e.kids)
SizeAll(f) == IF f = <<>> THEN 0 ELSE Size(Head(f)) + SizeAll(Tail(f))

\* What a child of a row element can look like: a field with text, or a
\* container without text around one field.
KidShapes ==
    { [tag |-> "id", kids |-> <<>>],
      [tag |-> "sub", kids |-> <<[tag |-> "x", kids |-> <<>>]>>] }

\* The children a row element can have: 0..MaxKids of them, in any order,
\* repeated tags included.
RowKids == UNION { [1..n -> KidShapes] : n \in 0..MaxKids }

\* Text of the p-th node (document order) of the r-th row of a section.  The
\* script copies texts and never looks into them, so every field carries a
\* text of its own: where a value ends up shows where it came from.
TextOf(r, p) == "r" \o ToString(r) \o "n" \o ToString(p)

RECURSIVE LabelTree(_, _, _), LabelForest(_, _, _)
\* The parsed element of a tag tree: a node with children has no text of
\* its own (None), a leaf carries its text.
LabelTree(s, r, p) ==
    [tag  |-> s.tag,
     text |-> IF s.kids = <<>> THEN TextOf(r, p) ELSE None,
     kids |-> LabelForest(s.kids, r, p + 1)]
LabelForest(f, r, p) ==
    IF f = <<>> THEN <<>>
    ELSE <<LabelTree(Head(f), r, p)>> \o LabelForest(Tail(f), r, p + Size(Head(f)))

\* The section element tagged tag whose children are the row elements
\* tagged rowtag with the descendants ks[1], ks[2], ...
SectionElement(tag, rowtag, ks) ==
    [tag  |-> tag,
     text |-> None,
     kids |-> [r \in 1..Len(ks) |->
                 LabelTree([tag |-> rowtag, kids |-> ks[r]], r, 1)]]

RECURSIVE Iter(_), IterAll(_)
\* Element.iter(): the element itself, then its descendants, in document
\* (depth-first pre-) order.
Iter(e) == <<e>> \o IterAll(e.kids)
IterAll(f) == IF f = <<>> THEN <<>> ELSE Iter(Head(f)) \o IterAll(Tail(f))

TextsForTags(nodes) == [k \in 1..Len(nodes) |-> nodes[k].text]

\* [x.tag for x in nodes], [x.text for x in nodes]
TagsOf(nodes) == [k \in 1..Len(nodes) |-> nodes[k].tag]
TextsOf(nodes) == [k \in 1..Len(nodes) |-> nodes[k].text]

\* Element.findall(tag): the direct children with that tag, in order.
FindAll(e, tag) == SelectSeq(e.kids, LAMBDA c : c.tag = tag)

\* Element.find(tag): the first direct child with that tag, or None.
FindFirst(e, tag) ==
    IF FindAll(e, tag) = <<>> THEN <<>> ELSE <<Head(FindAll(e, tag))>>

\* The elements a find of a singleton (non-repeated) section can return.
SingleElements(tag) ==
    { LabelTree([tag |-> tag, kids |-> k], 1, 1) : k \in RowKids }

-----------------------------------------------------------------------------
(* dict and DataFrame. *)

InSeq(x, s) == \E k \in 1..Len(s) : s[k] = x
IndexOf(x, s) == CHOOSE k \in 1..Len(s) : s[k] = x

EmptyDict == [keys |-> <<>>, vals |-> <<>>]

\* d[k] = v
DictSet(d, k, v) ==
    IF InSeq(k, d.keys)
    THEN [d EXCEPT !.vals[IndexOf(k, d.keys)] = v]
    ELSE [keys |-> Append(d.keys, k), vals |-> Append(d.vals, v)]

RECURSIVE ZipInto(_, _, _, _)
ZipInto(d, ks, vs, k) ==
    IF k > Min(Len(ks), Len(vs)) THEN d
    ELSE ZipInto(DictSet(d, ks[k], vs[k]), ks, vs, k + 1)

\* dict(zip(ks, vs))
DictZip(ks, vs) == ZipInto(EmptyDict, ks, vs, 1)

\* pd.DataFrame(d, index=[0])
DataFrame(d) == [columns |-> d.keys, data |-> <<d.vals>>]

\* Row r of frame f laid out under the columns cols.
Realign(cols, f, r) ==
    [k \in 1..Len(cols) |->
        IF InSeq(cols[k], f.columns)
        THEN f.data[r][IndexOf(cols[k], f.columns)]
        ELSE NaN]

DfPrepend(a, b) ==
    LET cols == a.columns \o SelectSeq(b.columns, LAMBDA c : ~InSeq(c, a.columns))
    IN  [columns |-> cols,
         data    |-> [r \in 1..Len(b.data) |-> Realign(cols, b, r)]
                     \o [r \in 1..Len(a.data) |-> Realign(cols, a, r)]]

\* a.append(b)
DfAppend(a, b) ==
    LET cols == a.columns \o SelectSeq(b.columns, LAMBDA c : ~InSeq(c, a.columns))
    IN  [columns |-> cols,
         data    |-> [r \in 1..Len(a.data) |-> Realign(cols, a, r)]
                     \o [r \in 1..Len(b.data) |-> Realign(cols, b, r)]]

-----------------------------------------------------------------------------
(* The body of a section loop, as a function of the loop's names. *)

\* The names as they are initialised in front of the loop.
LoopStart == [headers |-> <<>>, hdr_count |-> 0, count |-> 0, df |-> <<>>]

NewHeadersEveryRow(hs, hc, items) == hs \o TagsOf(Iter(items))

\* if xxx_headers_count == 0: for x in items.iter(): headers.append(x.tag)
NewHeaders(hs, hc, items) ==
    IF hc = 0 THEN hs \o TagsOf(Iter(items)) ELSE hs

\* One pass of the loop body over the row element items.
LoopStep(st, items) ==
    LET hs    == NewHeaders(st.headers, st.hdr_count, items)
        rows  == TextsOf(Iter(items))
        frame == DataFrame(DictZip(hs, rows))
    IN  [headers   |-> hs,
         hdr_count |-> IF st.hdr_count = 0 THEN st.hdr_count + 1 ELSE st.hdr_count,
         count     |-> 1,
         df        |-> IF st.count = 0 THEN <<frame>>
                       ELSE <<DfAppend(st.df[1], frame)>>]

RECURSIVE LoopOver(_, _)
\* The names after the loop has run over the row elements rows.
LoopOver(st, rows) ==
    IF rows = <<>> THEN st ELSE LoopOver(LoopStep(st, Head(rows)), Tail(rows))

-----------------------------------------------------------------------------
(* The script. *)

\* The application is not running: a script is run on its own.
\* beyannamenogetter is not called.
NoBeyanname ==
    /\ disk = <<>>
    /\ filelist = <<>>
    /\ nfile = 0
    /\ sonuc_dict = EmptyDict
    /\ passed = EmptyDict
    /\ bpc = "none"

NoApp ==
    /\ ppc = "none"
    /\ gelenlineEdit = <<>>
    /\ sonucLineEdit = <<>>
    /\ filelistgelen = <<>>
    /\ filelistsonuc = <<>>
    /\ messageboxes = <<>>
    /\ progressbar = 0
    /\ writers = <<>>
    /\ dosyadurumu = <<>>
    /\ cwd = "."
    /\ raised = "none"
    /\ desktop = "ok"
    /\ dirs = {}
    /\ files = <<>>

Init ==
    /\ NoApp
    /\ NoBeyanname
    /\ sec = 1
    /\ pc = "find"
    /\ section = <<>>
    /\ lineitems = <<>>
    /\ i = 0
    /\ headers = <<>>
    /\ hdr_count = 0
    /\ count = 0
    /\ df = <<>>
    /\ writer = <<>>
    /\ saved = FALSE
    /\ error = "none"
    /\ root = <<>>
    /\ df_vergitop = <<>>
    /\ it = <<>>
    /\ el = 0

\* An uncaught exception ends the script.
Raise(e) ==
    /\ pc' = "error"
    /\ error' = e
    /\ UNCHANGED <<sec, lineitems, i, headers, hdr_count, count, df, writer, saved>>

\* Control moves on to the next section, or to writer.save(); the names of
\* the section just finished are dead from here on.
Advance ==
    /\ IF sec = Len(GelenScript)
       THEN pc' = "save" /\ sec' = sec
       ELSE pc' = "find" /\ sec' = sec + 1
    /\ section' = <<>>
    /\ lineitems' = <<>>
    /\ i' = 0
    /\ headers' = <<>>
    /\ hdr_count' = 0
    /\ count' = 0
    /\ df' = <<>>

\* beyanname_bilgi.find("Firma_bilgi") and its like.
Find ==
    /\ pc = "find"
    /\ UNCHANGED elsewhere
    /\ Cur.kind = "loop"
    /\ \/ section' = <<>>
       \/ \E n \in 0..MaxRows : \E ks \in [1..n -> RowKids] :
             section' = <<SectionElement(Cur.tag, Cur.row, ks)>>
    /\ pc' = "findall"
    /\ UNCHANGED <<sec, lineitems, i, headers, hdr_count, count, df, writer,
                   saved, error>>

\* root.find("BeyannameBilgi") and the table of its direct children.
Beyanname ==
    /\ pc = "find"
    /\ UNCHANGED elsewhere
    /\ Cur.kind = "children"
    /\ \E s \in {<<>>} \cup { <<e>> : e \in SingleElements(Cur.tag) } :
          /\ section' = s
          /\ IF s = <<>>
             THEN Raise("TypeError")
             ELSE /\ headers' = TagsOf(s[1].kids)
                  /\ df' = <<DataFrame(DictZip(headers', TextsOf(s[1].kids)))>>
                  /\ pc' = "to_excel"
                  /\ UNCHANGED <<sec, lineitems, i, hdr_count, count, writer,
                                 saved, error>>

\* teminat = beyanname_bilgi.find("Teminat"): looked up and never used.
Teminat ==
    /\ pc = "find"
    /\ UNCHANGED elsewhere
    /\ Cur.kind = "findonly"
    /\ Advance
    /\ UNCHANGED <<writer, saved, error>>

\* ozetbeyanlar.find("Ozetbeyan") and the table of that one element.
Ozetbeyan ==
    /\ pc = "find"
    /\ UNCHANGED elsewhere
    /\ Cur.kind = "first"
    /\ \E n \in 0..MaxRows : \E ks \in [1..n -> RowKids] :
       \E s \in {<<>>, <<SectionElement(Cur.tag, Cur.row, ks)>>} :
          /\ s = <<>> => n = 0
          /\ section' = s
          /\ IF s = <<>> \/ FindFirst(s[1], Cur.row) = <<>>
             THEN Raise("AttributeError")
             ELSE LET line == FindFirst(s[1], Cur.row)[1]
                      rest == Tail(Iter(line))
                  IN  /\ headers' = TagsOf(rest)
                      /\ df' = <<DataFrame(DictZip(headers', TextsOf(rest)))>>
                      /\ pc' = "to_excel"
                      /\ UNCHANGED <<sec, lineitems, i, hdr_count, count,
                                     writer, saved, error>>

\* kiymetbildirim.find("Kiymet") and df_kiymet1, the table of its direct
\* children, which no to_excel call writes.
Kiymet ==
    /\ pc = "find"
    /\ UNCHANGED elsewhere
    /\ Cur.kind = "kiymet"
    /\ \E found \in BOOLEAN :
       \E s \in {<<>>} \cup { <<e>> : e \in SingleElements(Cur.row) } :
          IF ~found
          THEN s = <<>> /\ section' = s /\ Raise("AttributeError")
          ELSE IF s = <<>>
          THEN section' = s /\ Raise("TypeError")
          ELSE /\ section' = s
               /\ headers' = TagsOf(s[1].kids)
               /\ df' = <<DataFrame(DictZip(headers', TextsOf(s[1].kids)))>>
               /\ pc' = "unwritten"
               /\ UNCHANGED <<sec, lineitems, i, hdr_count, count, writer,
                              saved, error>>

\* After df_kiymet1 the script goes straight on to KiymetKalemler.
KiymetKalemler ==
    /\ pc = "unwritten"
    /\ UNCHANGED elsewhere
    /\ Advance
    /\ UNCHANGED <<writer, saved, error>>

FindRowsOrEmpty ==
    /\ pc = "findall"
    /\ UNCHANGED elsewhere
    /\ lineitems' = IF section = <<>> THEN <<>> ELSE FindAll(section[1], Cur.row)
    /\ headers' = LoopStart.headers
    /\ hdr_count' = LoopStart.hdr_count
    /\ count' = LoopStart.count
    /\ i' = 0
    /\ df' = LoopStart.df
    /\ pc' = IF Len(lineitems') = 0 THEN "to_excel" ELSE "loop"
    /\ UNCHANGED <<sec, section, writer, saved, error>>

\* firmaBilgi.findall("firma"), then the loop's initialisations.
FindRows ==
    /\ pc = "findall"
    /\ UNCHANGED elsewhere
    /\ IF section = <<>>
       THEN /\ Raise("AttributeError")
            /\ UNCHANGED section
       ELSE /\ lineitems' = FindAll(section[1], Cur.row)
            /\ headers' = LoopStart.headers
            /\ hdr_count' = LoopStart.hdr_count
            /\ count' = LoopStart.count
            /\ i' = 0
            /\ df' = LoopStart.df
            /\ pc' = IF Len(lineitems') = 0 THEN "to_excel" ELSE "loop"
            /\ UNCHANGED <<sec, section, writer, saved, error>>

\* Element.clear(): the element without its children and its text.
Clear(e) == [tag |-> e.tag, text |-> None, kids |-> <<>>]

LoopBodyClearing ==
    /\ pc = "loop"
    /\ UNCHANGED elsewhere
    /\ i < Len(lineitems)
    /\ LET st == LoopStep([headers |-> headers, hdr_count |-> hdr_count,
                           count |-> count, df |-> df], lineitems[i + 1])
       IN  /\ headers' = st.headers
           /\ hdr_count' = st.hdr_count
           /\ count' = st.count
           /\ df' = st.df
    /\ i' = i + 1
    /\ lineitems' = [lineitems EXCEPT ![i + 1] = Clear(@)]
    /\ section' = <<[section[1] EXCEPT !.kids = lineitems']>>
    /\ pc' = IF i' = Len(lineitems) THEN "to_excel" ELSE "loop"
    /\ UNCHANGED <<sec, writer, saved, error>>

\* One iteration of "for items in firmaBilgiler".
LoopBody ==
    /\ pc = "loop"
    /\ UNCHANGED elsewhere
    /\ i < Len(lineitems)
    /\ LET st == LoopStep([headers |-> headers, hdr_count |-> hdr_count,
                           count |-> count, df |-> df], lineitems[i + 1])
       IN  /\ headers' = st.headers
           /\ hdr_count' = st.hdr_count
           /\ count' = st.count
           /\ df' = st.df
    /\ i' = i + 1
    /\ pc' = IF i' = Len(lineitems) THEN "to_excel" ELSE "loop"
    /\ UNCHANGED <<sec, section, lineitems, writer, saved, error>>

ToExcelForgotten ==
    /\ pc = "to_excel"
    /\ UNCHANGED elsewhere
    /\ IF df = <<>>
       THEN /\ Raise("NameError")
            /\ UNCHANGED section
       ELSE /\ Advance
            /\ UNCHANGED <<writer, saved, error>>

\* df_firma.to_excel(writer, 'FirmaBilgi')
ToExcel ==
    /\ pc = "to_excel"
    /\ UNCHANGED elsewhere
    /\ IF df = <<>>
       THEN /\ Raise("NameError")
            /\ UNCHANGED section
       ELSE /\ writer' = Append(writer, Cur.sheet)
            /\ Advance
            /\ UNCHANGED <<saved, error>>

\* writer.save()
Save ==
    /\ pc = "save"
    /\ UNCHANGED elsewhere
    /\ saved' = TRUE
    /\ pc' = "done"
    /\ UNCHANGED <<sec, section, lineitems, i, headers, hdr_count, count, df,
                   writer, error>>

Next ==
    \/ Beyanname
    \/ Teminat
    \/ Ozetbeyan
    \/ Kiymet
    \/ KiymetKalemler
    \/ Find
    \/ FindRows
    \/ LoopBody
    \/ ToExcel
    \/ Save

Spec == Init /\ [][Next]_vars

-----------------------------------------------------------------------------
(* The sections of sonucParse.py, in script order.  Every to_excel call of  *)
(* this script is commented out and it has no writer.save(); print is set  *)
(* where a print(df_xxx) follows the loop.                                 *)

SonucScript == <<
    [kind |-> "children", tag |-> "Sonuc",                  row |-> "",                    print |-> FALSE],
    [kind |-> "loop",     tag |-> "Belgeler",               row |-> "Belge",               print |-> FALSE],
    [kind |-> "loop",     tag |-> "Vergiler",               row |-> "Vergi",               print |-> FALSE],
    [kind |-> "loop",     tag |-> "Toplam_vergiler",        row |-> "Toplam_Vergi",        print |-> FALSE],
    [kind |-> "loop",     tag |-> "Toplam_vergiler",        row |-> "Toplam_Vergi",        print |-> FALSE],
    [kind |-> "loop",     tag |-> "Hesap_detaylari",        row |-> "Hesap_detay",         print |-> FALSE],
    [kind |-> "loop",     tag |-> "Gumruk_kiymetleri",      row |-> "Gumruk_Kiymeti",      print |-> TRUE],
    [kind |-> "loop",     tag |-> "Istatistiki_kiymetleri", row |-> "Istatistiki_Kiymeti", print |-> TRUE] >>

SonucCur == SonucScript[sec]

\* The script looks the current section's tag up once more further down.
FoundAgainLater ==
    \E k \in (sec + 1)..Len(SonucScript) : SonucScript[k].tag = SonucCur.tag

\* Control moves on to the next section, or off the end of the script.  The
\* names of the section just finished are dead, except where the script
\* comes back to the same section: there the tree as it stands and the
\* table made from it stay.
SonucAdvance ==
    /\ IF sec = Len(SonucScript)
       THEN pc' = "done" /\ sec' = sec
       ELSE pc' = "find" /\ sec' = sec + 1
    /\ root' = IF FoundAgainLater
               THEN <<[tag |-> SonucCur.tag, el |-> section]>> ELSE <<>>
    /\ df_vergitop' = IF FoundAgainLater THEN df ELSE <<>>
    /\ section' = <<>>
    /\ lineitems' = <<>>
    /\ i' = 0
    /\ headers' = <<>>
    /\ hdr_count' = 0
    /\ count' = 0
    /\ df' = <<>>

\* sonuc_headers = [elem.tag for elem in root] and df_sonucgenel, the table
\* of the root's direct children.
SonucGenel ==
    /\ pc = "find"
    /\ SonucCur.kind = "children"
    /\ \E e \in SingleElements(SonucCur.tag) :
          /\ section' = <<e>>
          /\ headers' = TagsOf(e.kids)
          /\ df' = <<DataFrame(DictZip(headers', TextsOf(e.kids)))>>
    /\ pc' = "to_excel"
    /\ UNCHANGED <<sec, lineitems, i, hdr_count, count, writer, saved, error>>
    /\ UNCHANGED <<root, df_vergitop, outside>>

\* root.find("Belgeler") and its like; a section found before is the same
\* element again.
SonucFind ==
    /\ pc = "find"
    /\ SonucCur.kind = "loop"
    /\ IF root # <<>> /\ root[1].tag = SonucCur.tag
       THEN section' = root[1].el
       ELSE \/ section' = <<>>
            \/ \E n \in 0..MaxRows : \E ks \in [1..n -> RowKids] :
                  section' = <<SectionElement(SonucCur.tag, SonucCur.row, ks)>>
    /\ pc' = "findall"
    /\ UNCHANGED <<sec, lineitems, i, headers, hdr_count, count, df, writer,
                   saved, error>>
    /\ UNCHANGED <<root, df_vergitop, outside>>

\* belgeler.findall("Belge"), then the loop's initialisations.
SonucFindRows ==
    /\ pc = "findall"
    /\ UNCHANGED <<root, df_vergitop, outside>>
    /\ IF section = <<>>
       THEN /\ Raise("AttributeError")
            /\ UNCHANGED section
       ELSE /\ lineitems' = FindAll(section[1], SonucCur.row)
            /\ headers' = LoopStart.headers
            /\ hdr_count' = LoopStart.hdr_count
            /\ count' = LoopStart.count
            /\ i' = 0
            /\ df' = LoopStart.df
            /\ pc' = IF Len(lineitems') = 0 THEN "to_excel" ELSE "loop"
            /\ UNCHANGED <<sec, section, writer, saved, error>>

\* "# df_belge.to_excel(writer, 'Belgeler')": nothing reaches the writer;
\* print(df_kym) reads a name that a loop over no rows left unassigned.
SonucToExcel ==
    /\ pc = "to_excel"
    /\ UNCHANGED outside
    /\ IF SonucCur.print /\ df = <<>>
       THEN /\ Raise("NameError")
            /\ UNCHANGED <<section, root, df_vergitop>>
       ELSE /\ SonucAdvance
            /\ UNCHANGED <<writer, saved, error>>

NextSonuc ==
    \/ SonucGenel
    \/ SonucFind
    \/ SonucFindRows
    \/ LoopBody
    \/ SonucToExcel

SpecSonuc == Init /\ [][NextSonuc]_vars

-----------------------------------------------------------------------------
(* Vocabulary of the properties. *)

\* A section loop has consumed all its row elements; df is the table that
\* goes to to_excel next.
LoopDone == pc = "to_excel" /\ Cur.kind = "loop"

Frame == df[1]

Max(S) == CHOOSE m \in S : \A n \in S : n <= m

Reverse(s) == [k \in 1..Len(s) |-> s[Len(s) + 1 - k]]

RECURSIVE SameShape(_, _)
\* Two elements carry the same tags in the same tree positions.
SameShape(a, b) ==
    /\ a.tag = b.tag
    /\ Len(a.kids) = Len(b.kids)
    /\ \A k \in 1..Len(a.kids) : SameShape(a.kids[k], b.kids[k])

\* The rows of a section are structurally identical.
SameStructure(rows) ==
    \A a, b \in 1..Len(rows) : SameShape(rows[a], rows[b])

\* The descendants of an element in depth-first pre-order, the element
\* itself left out.
Descendants(e) == Tail(Iter(e))

RECURSIVE FirstOccurrences(_)
\* s without the repetitions of a name that occurred earlier in s.
FirstOccurrences(s) ==
    IF s = <<>> THEN <<>>
    ELSE LET front == SubSeq(s, 1, Len(s) - 1)
         IN  IF InSeq(s[Len(s)], front)
             THEN FirstOccurrences(front)
             ELSE Append(FirstOccurrences(front), s[Len(s)])

Distinct(s) == \A a, b \in 1..Len(s) : a # b => s[a] # s[b]

\* What a row whose nodes have the texts ts shows under the column c, the
\* header list being hs: the text of the last node paired with a header c,
\* NaN when no node is.
CellFrom(hs, ts, c) ==
    LET P == { p \in 1..Min(Len(hs), Len(ts)) : hs[p] = c }
    IN  IF P = {} THEN NaN ELSE ts[Max(P)]

-----------------------------------------------------------------------------
(* C1 .. C10: the section loops of gelenParse.py. *)

\* C1: a repeated section whose N >= 1 row elements all have the same tag
\* sequence yields a table with exactly N data rows and as many columns as
\* Element.iter() visits nodes in one row.
C1_RowsAndColumns ==
    (LoopDone /\ lineitems # <<>> /\ SameStructure(lineitems)) =>
        /\ df # <<>>
        /\ Len(Frame.data) = Len(lineitems)
        /\ Len(Frame.columns) = Len(Iter(lineitems[1]))

\* C2: the columns of a repeated section are tags of the first row's
\* descendants only; the tag of the row container is not a column.
C2_ColumnsExcludeRowTag ==
    (LoopDone /\ lineitems # <<>>) =>
        /\ df # <<>>
        /\ ~InSeq(lineitems[1].tag, Frame.columns)
        /\ \A k \in 1..Len(Frame.columns) :
              InSeq(Frame.columns[k], TagsOf(Descendants(lineitems[1])))

\* C3: the header list is written while the first row is processed and
\* never afterwards; the header counter stays in {0, 1}; when the loop is
\* over the header list is the pre-order tag list of the first row and the
\* table's columns stand in that order.
C3_HeadersFixedByFirstRow ==
    /\ [](/\ hdr_count \in {0, 1}
          /\ (LoopDone /\ lineitems # <<>>) =>
                /\ headers = [k \in 1..Len(Iter(lineitems[1])) |->
                                 Iter(lineitems[1])[k].tag]
                /\ Frame.columns = FirstOccurrences(headers))
    /\ [][(pc = "loop" /\ hdr_count = 1) =>
              (headers' = headers /\ hdr_count' = 1)]_vars
    /\ [][(pc = "loop" /\ headers' # headers) => i = 0]_vars

\* A second row of another shape went through the loop after the headers
\* were taken from the first.
C3_Witness ==
    /\ LoopDone
    /\ Len(lineitems) = 2
    /\ hdr_count = 1
    /\ ~SameShape(lineitems[1], lineitems[2])
    /\ Len(headers) = 4

\* C4: the table has one data row per row element, in document order: row r
\* of the table holds, under every column, the value the r-th row element
\* gives for that column.
C4_RowsInDocumentOrder ==
    (LoopDone /\ lineitems # <<>>) =>
        /\ df # <<>>
        /\ Len(Frame.data) = Len(lineitems)
        /\ \A r \in 1..Len(lineitems) :
              /\ Len(Frame.data[r]) = Len(Frame.columns)
              /\ \A k \in 1..Len(Frame.columns) :
                    Frame.data[r][k] =
                        CellFrom([p \in 1..Len(Iter(lineitems[1])) |->
                                     Iter(lineitems[1])[p].tag],
                                 TextsOf(Iter(lineitems[r])),
                                 Frame.columns[k])

\* Two rows with different field values are in the table, first row first.
C4_Witness ==
    /\ LoopDone
    /\ Len(lineitems) = 2
    /\ SameStructure(lineitems)
    /\ Len(Frame.data) = 2
    /\ Frame.data[1] = <<None, "r1n2", None, "r1n4">>
    /\ Frame.data[2] = <<None, "r2n2", None, "r2n4">>

\* C5: a section that is present and has no matching row element is
\* flattened without error.
C5_EmptySectionFlattens ==
    (Cur.kind = "loop" /\ section # <<>> /\ pc # "findall"
        /\ FindAll(section[1], Cur.row) = <<>>) =>
        error = "none"

\* C6: a later row whose traversal has another number of values than the
\* first row has headers is still added, its k-th value under the k-th
\* header's column for k up to the shorter length, and the columns stay
\* those of the first row.
C6_MismatchedRowPositional ==
    LoopDone =>
        \A r \in 2..Len(lineitems) :
            LET ts == TextsOf(Iter(lineitems[r]))
                hs == TagsOf(Iter(lineitems[1]))
            IN  Len(ts) # Len(hs) =>
                    /\ df # <<>>
                    /\ Len(Frame.data) = Len(lineitems)
                    /\ Frame.columns = FirstOccurrences(hs)
                    /\ \A k \in 1..Min(Len(ts), Len(hs)) :
                          Frame.data[r][IndexOf(hs[k], Frame.columns)] = ts[k]

\* C7: when find returns nothing for a section, the script raises at that
\* section: no rows, headers or table are made for it, nothing more reaches
\* the writer, the script does not go on, and the spreadsheet is not saved.
C7_MissingSectionRaises ==
    /\ [](/\ pc \in {"loop", "to_excel", "unwritten"} => section # <<>>
          /\ error # "none" => (pc = "error" /\ ~saved)
          /\ saved => error = "none")
    /\ [][(pc = "findall" /\ section = <<>>) =>
              (pc' = "error" /\ error' = "AttributeError" /\ writer' = writer
               /\ df' = df /\ lineitems' = lineitems)]_vars
    /\ [][pc # "error"]_vars

\* A section after the first sheets is absent and the script has stopped
\* there.
C7_Witness ==
    /\ pc = "error"
    /\ error = "AttributeError"
    /\ Cur.kind = "loop"
    /\ section = <<>>
    /\ Len(writer) >= 2
    /\ ~saved

\* C8: every node visited in a row's traversal gives one value, its text or
\* null, in traversal order, a container without text included; the row
\* <item><id>1</id><sub><x>9</x></sub></item> gives the columns id, sub, x
\* and the values 1, null, 9.
C8_EveryNodeOneValue ==
    (LoopDone /\ lineitems # <<>>) =>
        /\ df # <<>>
        /\ Frame.columns = TagsOf(Descendants(lineitems[1]))
        /\ \A r \in 1..Len(lineitems) :
              SameShape(lineitems[r], lineitems[1]) =>
                  Frame.data[r] = TextsOf(Descendants(lineitems[r]))

\* C9: the column names are pairwise distinct and there is one column per
\* node of the first row's traversal, also when two nodes have the same
\* tag: no node's value is lost.
C9_DistinctColumnsNoLoss ==
    (LoopDone /\ lineitems # <<>>) =>
        /\ df # <<>>
        /\ Distinct(Frame.columns)
        /\ Len(Frame.columns) = Len(Iter(lineitems[1]))
        /\ \A p \in 1..Len(Iter(lineitems[1])) :
              InSeq(Iter(lineitems[1])[p].text, Frame.data[1])

\* C10: for structurally identical rows, the loop run over the row
\* elements in reverse order gives the same column list, names and order.
C10_ColumnsIndependentOfRowOrder ==
    (LoopDone /\ lineitems # <<>> /\ SameStructure(lineitems)) =>
        /\ df # <<>>
        /\ LoopOver(LoopStart, Reverse(lineitems)).df # <<>>
        /\ Frame.columns = LoopOver(LoopStart, Reverse(lineitems)).df[1].columns

\* Two different rows of the same structure with several columns.
C10_Witness ==
    /\ LoopDone
    /\ Len(lineitems) = 2
    /\ SameStructure(lineitems)
    /\ Reverse(lineitems) # lineitems
    /\ Frame.columns = <<Cur.row, "id", "sub", "x">>

-----------------------------------------------------------------------------
(* The namespace loop in front of the sections (gelenParse.py 25-28, and   *)
(* the same lines in sonucParse.py and beyannameno.py).  A tag is the      *)
(* sequence of its characters.  A namespace name is a URI reference and a  *)
(* local name an XML name: neither contains a brace.                       *)

NamespaceNames == { <<"u">>, <<"v", "w">> }
LocalNames == { <<"a">>, <<"b", "c">> }

\* The tag ElementTree gives an element of the namespace u: "{u}l".
Qualified(u, l) == <<"{">> \o u \o <<"}">> \o l

\* The tags of parsed elements: in a namespace or in none.
Tags ==
    LocalNames \cup { Qualified(u, l) : u \in NamespaceNames, l \in LocalNames }

SplitKeepingSep(s, sep) ==
    IF \E k \in 1..Len(s) : s[k] = sep
    THEN LET k == CHOOSE j \in 1..Len(s) :
                     s[j] = sep /\ \A h \in 1..(j - 1) : s[h] # sep
         IN  <<SubSeq(s, 1, k - 1), SubSeq(s, k, Len(s))>>
    ELSE <<s>>

\* s.split(sep, 1): s cut at the first sep, or s alone when it has none.
Split(s, sep) ==
    IF \E k \in 1..Len(s) : s[k] = sep
    THEN LET k == CHOOSE j \in 1..Len(s) :
                     s[j] = sep /\ \A h \in 1..(j - 1) : s[h] # sep
         IN  <<SubSeq(s, 1, k - 1), SubSeq(s, k + 1, Len(s))>>
    ELSE <<s>>

\* it = ElementTree.iterparse('Gelen.xml'): any document of 1..MaxEls
\* elements.
InitStrip ==
    /\ NoApp
    /\ NoBeyanname
    /\ pc = "iterparse"
    /\ \E n \in 1..MaxEls : it \in [1..n -> Tags]
    /\ el = 0
    /\ error = "none"
    /\ sec = 1
    /\ section = <<>>
    /\ lineitems = <<>>
    /\ i = 0
    /\ headers = <<>>
    /\ hdr_count = 0
    /\ count = 0
    /\ df = <<>>
    /\ writer = <<>>
    /\ saved = FALSE
    /\ root = <<>>
    /\ df_vergitop = <<>>

\* el.tag = el.tag.split('}', 1)[1] for the next element.
StripNamespace ==
    /\ pc = "iterparse"
    /\ el < Len(it)
    /\ el' = el + 1
    /\ LET parts == Split(it[el + 1], "}")
       IN  IF Len(parts) < 2
           THEN pc' = "error" /\ error' = "IndexError" /\ it' = it
           ELSE /\ it' = [it EXCEPT ![el + 1] = parts[2]]
                /\ UNCHANGED <<pc, error>>
    /\ UNCHANGED later

\* root = it.root and writer = ExcelWriter(..), once the loop is over; the
\* sections are looked up from here on.
ItRoot ==
    /\ pc = "iterparse"
    /\ el = Len(it)
    /\ pc' = "find"
    /\ UNCHANGED <<it, el, error, later>>

NextStrip ==
    \/ StripNamespace
    \/ ItRoot

SpecStrip == InitStrip /\ [][NextStrip]_vars

\* The local name of a tag.
LocalName(t) ==
    CHOOSE l \in LocalNames :
        t = l \/ \E u \in NamespaceNames : t = Qualified(u, l)

-----------------------------------------------------------------------------
(* main.py and functions.py: the window's handlers and the provisioning of *)
(* the working directories.  A text (a path, a file name) is the sequence   *)
(* of its characters.                                                       *)
(*                                                                          *)
(* ExcelWriter(path) is an object in memory until it is saved (pandas up to *)
(* 1.1, where DataFrame.append and writer.save() are at home): creating it  *)
(* touches no directory.  Process calls Gelen_Parse, a name bound nowhere   *)
(* in main.py (the names imported are gelen_parse and sonuc_parse): the     *)
(* call raises NameError and the statements after it are never reached.     *)
(* Importing gelenParse runs that script; of it the application's model     *)
(* follows the mkdir, its sections being the script above.                  *)

StartsWith(t, p) == Len(p) <= Len(t) /\ SubSeq(t, 1, Len(p)) = p
EndsWith(t, p) ==
    Len(p) <= Len(t) /\ SubSeq(t, Len(t) - Len(p) + 1, Len(t)) = p
\* p in t
Contains(t, p) ==
    \E k \in 0..(Len(t) - Len(p)) : SubSeq(t, k + 1, k + Len(p)) = p

Slash == <<"/">>
DotXml == <<".", "x", "m", "l">>

\* The directory that holds the XML files, and the names a listing of it
\* can hold.
InputDir == <<"C", ":", "/", "d">>
FileNames ==
    { <<"a">> \o DotXml, <<"b", ".", "t", "x", "t">>, <<"c", ".", "t", "x", "t">> }

\* os.listdir gives every name once, in any order.
Listings ==
    UNION { { l \in [1..n -> FileNames] :
                \A a, b \in 1..n : a # b => l[a] # l[b] } :
            n \in 0..Cardinality(FileNames) }

\* What a user can type into a line edit: nothing, the directory with and
\* without the closing slash, a directory that does not exist.
TypedPaths ==
    { <<>>, InputDir \o Slash, InputDir, <<"C", ":", "/", "e", "/">> }

\* QFileDialog.getOpenFileName(.., "*.xml")[0]: the path of an .xml file of
\* the directory, or "" when the dialog is cancelled.
DialogPaths ==
    {<<>>} \cup { InputDir \o Slash \o files[k] :
                    k \in { j \in 1..Len(files) : EndsWith(files[j], DotXml) } }

\* The condition of Process under which the error box is shown.
BadPath(p) ==
    \/ p = <<>>
    \/ ~Contains(p, Slash)
    \/ Contains(p, DotXml)
    \/ ~EndsWith(p, Slash)
    \/ ~StartsWith(p, <<"C", ":">>)

\* os.listdir(p) returns the listing.
IsDir(p) == p \in {InputDir, InputDir \o Slash}

\* The exception os.listdir(p) raises otherwise.
ListdirError(p) ==
    IF \E k \in 1..Len(files) : p = InputDir \o Slash \o files[k]
    THEN "NotADirectoryError"
    ELSE "FileNotFoundError"

\* lst.remove(x): lst without the first x.
Remove(lst, x) ==
    LET k == CHOOSE j \in 1..Len(lst) :
                 lst[j] = x /\ \A h \in 1..(j - 1) : lst[h] # x
    IN  SubSeq(lst, 1, k - 1) \o SubSeq(lst, k + 1, Len(lst))

RECURSIVE FilterLoop(_, _)
\* for filename in lst: if not filename.endswith('.xml'): lst.remove(filename)
\* from the k-th position on; the for loop goes by position in the list as
\* it is at that moment.
FilterLoop(lst, k) ==
    IF k > Len(lst) THEN lst
    ELSE IF EndsWith(lst[k], DotXml) THEN FilterLoop(lst, k + 1)
    ELSE FilterLoop(Remove(lst, lst[k]), k + 1)

\* The working directories on the Desktop.
DesktopDirs == {"XMLParser_Gelen", "XMLParser_Sonuc", "IthalatConverter"}

\* No script is running.
NoScript ==
    /\ sec = 1
    /\ pc = "none"
    /\ section = <<>>
    /\ lineitems = <<>>
    /\ i = 0
    /\ headers = <<>>
    /\ hdr_count = 0
    /\ count = 0
    /\ df = <<>>
    /\ writer = <<>>
    /\ saved = FALSE
    /\ error = "none"
    /\ root = <<>>
    /\ df_vergitop = <<>>
    /\ it = <<>>
    /\ el = 0

\* python main.py, in front of its imports.
InitApp ==
    /\ NoScript
    /\ NoBeyanname
    /\ ppc = "import gelenParse"
    /\ gelenlineEdit = <<>>
    /\ sonucLineEdit = <<>>
    /\ filelistgelen = <<>>
    /\ filelistsonuc = <<>>
    /\ messageboxes = <<>>
    /\ progressbar = 0
    /\ writers = <<>>
    /\ dosyadurumu =
          [f \in {"gelendosya", "sonucdosya", "dosyaexistcheck"} |-> "unset"]
    /\ cwd = "."
    /\ raised = "none"
    /\ desktop \in {"ok", "readonly", "missing"}
    /\ dirs \in SUBSET (DesktopDirs \cup {"Gelen_Parser"})
    /\ desktop = "missing" => dirs \cap DesktopDirs = {}
    /\ files \in Listings

\* from gelenParse import ..: the script's os.mkdir('Gelen_Parser'), its
\* FileExistsError caught.
ImportGelenParse ==
    /\ ppc = "import gelenParse"
    /\ dirs' = dirs \cup {"Gelen_Parser"}
    /\ ppc' = "import functions"
    /\ UNCHANGED <<gelenlineEdit, sonucLineEdit, filelistgelen, filelistsonuc,
                   messageboxes, progressbar, writers, dosyadurumu, cwd,
                   raised, desktop, files, scripts>>

\* excel_writer(): excel_writer.writer = ExcelWriter(path)
excel_writer(caller) == writers' = Append(writers, caller)

\* from functions import ..: the module ends with a call of excel_writer().
ImportFunctions ==
    /\ ppc = "import functions"
    /\ excel_writer("functions")
    /\ ppc' = "idle"
    /\ UNCHANGED <<gelenlineEdit, sonucLineEdit, filelistgelen, filelistsonuc,
                   messageboxes, progressbar, dosyadurumu, cwd, raised,
                   desktop, dirs, files, scripts>>

findfileGelen ==
    /\ ppc = "idle"
    /\ \E p \in DialogPaths : gelenlineEdit' = p
    /\ UNCHANGED <<ppc, sonucLineEdit, filelistgelen, filelistsonuc,
                   messageboxes, progressbar, writers, dosyadurumu, cwd,
                   raised, desktop, dirs, files, scripts>>

findfileSonuc ==
    /\ ppc = "idle"
    /\ \E p \in DialogPaths : sonucLineEdit' = p
    /\ UNCHANGED <<ppc, gelenlineEdit, filelistgelen, filelistsonuc,
                   messageboxes, progressbar, writers, dosyadurumu, cwd,
                   raised, desktop, dirs, files, scripts>>

\* The user types a path into the Gelen line edit.
EditGelen ==
    /\ ppc = "idle"
    /\ \E p \in TypedPaths : gelenlineEdit' = p
    /\ UNCHANGED <<ppc, sonucLineEdit, filelistgelen, filelistsonuc,
                   messageboxes, progressbar, writers, dosyadurumu, cwd,
                   raised, desktop, dirs, files, scripts>>

\* The user types a path into the Sonuc line edit.
EditSonuc ==
    /\ ppc = "idle"
    /\ \E p \in TypedPaths : sonucLineEdit' = p
    /\ UNCHANGED <<ppc, gelenlineEdit, filelistgelen, filelistsonuc,
                   messageboxes, progressbar, writers, dosyadurumu, cwd,
                   raised, desktop, dirs, files, scripts>>

\* A provisioning that records "yok" whether or not it created the directory.
ProvisionAlwaysYok(f, name) ==
    IF desktop = "missing"
    THEN raised' = "FileNotFoundError" /\ UNCHANGED <<cwd, dirs, dosyadurumu>>
    ELSE IF name \in dirs
    THEN /\ dosyadurumu' = [dosyadurumu EXCEPT ![f] = "yok"]
         /\ UNCHANGED <<cwd, dirs, raised>>
    ELSE IF desktop = "readonly"
    THEN /\ raised' = "PermissionError"
         /\ cwd' = "Desktop"
         /\ UNCHANGED <<dirs, dosyadurumu>>
    ELSE /\ dirs' = dirs \cup {name}
         /\ dosyadurumu' = [dosyadurumu EXCEPT ![f] = "yok"]
         /\ UNCHANGED <<cwd, raised>>

ProvisionUncaught(f, name) ==
    IF desktop = "missing"
    THEN raised' = "FileNotFoundError" /\ UNCHANGED <<cwd, dirs, dosyadurumu>>
    ELSE IF name \in dirs
    THEN /\ raised' = "FileExistsError"
         /\ cwd' = "Desktop"
         /\ UNCHANGED <<dirs, dosyadurumu>>
    ELSE IF desktop = "readonly"
    THEN /\ raised' = "PermissionError"
         /\ cwd' = "Desktop"
         /\ UNCHANGED <<dirs, dosyadurumu>>
    ELSE /\ dirs' = dirs \cup {name}
         /\ dosyadurumu' = [dosyadurumu EXCEPT ![f] = "yok"]
         /\ UNCHANGED <<cwd, raised>>

\* The body gelendosya, sonucdosya and dosyaexistcheck share: chdir to the
\* Desktop, mkdir name with FileExistsError caught, chdir back.
Provision(f, name) ==
    IF desktop = "missing"
    THEN raised' = "FileNotFoundError" /\ UNCHANGED <<cwd, dirs, dosyadurumu>>
    ELSE IF name \in dirs
    THEN /\ dosyadurumu' = [dosyadurumu EXCEPT ![f] = "var"]
         /\ UNCHANGED <<cwd, dirs, raised>>
    ELSE IF desktop = "readonly"
    THEN /\ raised' = "PermissionError"
         /\ cwd' = "Desktop"
         /\ UNCHANGED <<dirs, dosyadurumu>>
    ELSE /\ dirs' = dirs \cup {name}
         /\ dosyadurumu' = [dosyadurumu EXCEPT ![f] = "yok"]
         /\ UNCHANGED <<cwd, raised>>

gelendosya == Provision("gelendosya", "XMLParser_Gelen")
sonucdosya == Provision("sonucdosya", "XMLParser_Sonuc")
dosyaexistcheck == Provision("dosyaexistcheck", "IthalatConverter")

\* A call of dosyaexistcheck(), which main.py imports.
CallDosyaexistcheck ==
    /\ ppc = "idle"
    /\ dosyaexistcheck
    /\ ppc' = IF raised' = "none" THEN "idle" ELSE "raised"
    /\ UNCHANGED <<gelenlineEdit, sonucLineEdit, filelistgelen, filelistsonuc,
                   messageboxes, progressbar, writers, desktop, files,
                   scripts>>

\* Process, lines 41-50: the Gelen path is checked and its directory listed.
ProcessGelenpath ==
    /\ ppc = "idle"
    /\ messageboxes' = IF BadPath(gelenlineEdit)
                       THEN Append(messageboxes, "Hatali Dosya Uzantisi!!!")
                       ELSE messageboxes
    /\ IF IsDir(gelenlineEdit)
       THEN /\ filelistgelen' = FilterLoop(files, 1)
            /\ ppc' = "sonucpath"
            /\ UNCHANGED raised
       ELSE /\ raised' = ListdirError(gelenlineEdit)
            /\ ppc' = "raised"
            /\ UNCHANGED filelistgelen
    /\ UNCHANGED <<gelenlineEdit, sonucLineEdit, filelistsonuc, progressbar,
                   writers, dosyadurumu, cwd, desktop, dirs, files, scripts>>

\* Process, lines 52-61: the same for the Sonuc path.
ProcessSonucpath ==
    /\ ppc = "sonucpath"
    /\ messageboxes' = IF BadPath(sonucLineEdit)
                       THEN Append(messageboxes, "Hatali Dosya Uzantisi!!!")
                       ELSE messageboxes
    /\ IF IsDir(sonucLineEdit)
       THEN /\ filelistsonuc' = FilterLoop(files, 1)
            /\ ppc' = "excel_writer"
            /\ UNCHANGED raised
       ELSE /\ raised' = ListdirError(sonucLineEdit)
            /\ ppc' = "raised"
            /\ UNCHANGED filelistsonuc
    /\ UNCHANGED <<gelenlineEdit, sonucLineEdit, filelistgelen, progressbar,
                   writers, dosyadurumu, cwd, desktop, dirs, files, scripts>>

\* Process, lines 64-87: excel_writer(), the progress dialog, count = 5.
ProcessExcelWriter ==
    /\ ppc = "excel_writer"
    /\ excel_writer("Process")
    /\ progressbar' = 5
    /\ ppc' = "gelendosya"
    /\ UNCHANGED <<gelenlineEdit, sonucLineEdit, filelistgelen, filelistsonuc,
                   messageboxes, dosyadurumu, cwd, raised, desktop, dirs,
                   files, scripts>>

\* Process, lines 88-95: gelendosya(), its box, count += 5.
ProcessGelendosya ==
    /\ ppc = "gelendosya"
    /\ gelendosya
    /\ IF raised' # "none"
       THEN ppc' = "raised" /\ UNCHANGED <<messageboxes, progressbar>>
       ELSE /\ messageboxes' = IF dosyadurumu'["gelendosya"] = "var"
                               THEN Append(messageboxes, "Desktopu temizle!!!")
                               ELSE messageboxes
            /\ progressbar' = progressbar + 5
            /\ ppc' = "sonucdosya"
    /\ UNCHANGED <<gelenlineEdit, sonucLineEdit, filelistgelen, filelistsonuc,
                   writers, desktop, files, scripts>>

\* Process, lines 96-102: sonucdosya(), its box, count += 30.
ProcessSonucdosya ==
    /\ ppc = "sonucdosya"
    /\ sonucdosya
    /\ IF raised' # "none"
       THEN ppc' = "raised" /\ UNCHANGED <<messageboxes, progressbar>>
       ELSE /\ messageboxes' = IF dosyadurumu'["sonucdosya"] = "var"
                               THEN Append(messageboxes, "Desktopu temizle!!!")
                               ELSE messageboxes
            /\ progressbar' = progressbar + 30
            /\ ppc' = "Gelen_Parse"
    /\ UNCHANGED <<gelenlineEdit, sonucLineEdit, filelistgelen, filelistsonuc,
                   writers, desktop, files, scripts>>

\* Process, line 103: Gelen_Parse(filelistgelen), a name that is not bound.
ProcessGelenParse ==
    /\ ppc = "Gelen_Parse"
    /\ raised' = "NameError"
    /\ ppc' = "raised"
    /\ UNCHANGED <<gelenlineEdit, sonucLineEdit, filelistgelen, filelistsonuc,
                   messageboxes, progressbar, writers, dosyadurumu, cwd,
                   desktop, dirs, files, scripts>>

NextApp ==
    \/ ImportGelenParse
    \/ ImportFunctions
    \/ findfileGelen
    \/ findfileSonuc
    \/ EditGelen
    \/ EditSonuc
    \/ CallDosyaexistcheck
    \/ ProcessGelenpath
    \/ ProcessSonucpath
    \/ ProcessExcelWriter
    \/ ProcessGelendosya
    \/ ProcessSonucdosya
    \/ ProcessGelenParse

SpecApp == InitApp /\ [][NextApp]_vars

-----------------------------------------------------------------------------
(* C11 .. C20. *)

\* sonucParse.py has flattened the section it flattens a second time.
SecondDone ==
    /\ pc = "to_excel"
    /\ sec > 1
    /\ SonucScript[sec].tag = SonucScript[sec - 1].tag

\* C11: the two successive flattenings of Toplam_vergiler in sonucParse.py
\* give the same table, df_vergitoplnn having the column list and the rows,
\* in order, of df_vergitop; and the second run does not alter df_vergitop.
C11_SameSectionSameTable ==
    /\ [](SecondDone => df = df_vergitop)
    /\ [][(SonucScript[sec].tag = "Toplam_vergiler" /\ sec' = sec)
              => df_vergitop' = df_vergitop]_vars

\* Toplam_vergiler has two rows of different shapes and both tables are
\* made.
C11_Witness ==
    /\ SecondDone
    /\ df # <<>>
    /\ df_vergitop # <<>>
    /\ Len(df[1].data) = 2
    /\ Len(df[1].columns) = 4
    /\ ~SameShape(lineitems[1], lineitems[2])

\* C12: a section loop leaves the parsed tree as it is: the section element
\* keeps its tags, texts and children order from the find to the end of
\* the section, the rows the loop walks stay the children the findall
\* returned, and an iteration changes nothing but the section's own header
\* list, counters, row index and table.
C12_LoopLeavesTreeUnchanged ==
    /\ []((Cur.kind = "loop" /\ pc \in {"loop", "to_excel"}) =>
             /\ section # <<>>
             /\ lineitems = FindAll(section[1], Cur.row))
    /\ [][(section # <<>> /\ section' # <<>>) => section' = section]_vars
    /\ [][pc = "loop" =>
              UNCHANGED <<sec, section, lineitems, writer, saved, error,
                          elsewhere>>]_vars

\* The Dokuman loop, after five sections before it, has walked two rows
\* with nested children.
C12_Witness ==
    /\ LoopDone
    /\ Cur.row = "Dokuman"
    /\ i = 2
    /\ Len(section[1].kids) = 2
    /\ Size(section[1]) = 9
    /\ Len(Frame.data) = 2

\* The sections of gelenParse.py that are flattened into a table.
GelenTables ==
    { k \in 1..Len(GelenScript) : GelenScript[k].kind # "findonly" }

\* C13: the saved spreadsheet of a Gelen document has one sheet per
\* flattened section, the valuation block among them: every table that was
\* made has been written to the writer when it is saved.
C13_OneSheetPerSection ==
    saved => Len(writer) = Cardinality(GelenTables)

\* C14: once the namespace loop is over, and so before the first section
\* is looked up, every element's tag is a local name without a "{..}"
\* qualifier; each step of the loop leaves the element it took with the
\* local name of the tag it had.
C14_TagsLocalAfterStrip ==
    /\ [](pc = "find" => \A k \in 1..Len(it) : it[k] \in LocalNames)
    /\ [][(pc = "iterparse" /\ pc' # "error" /\ el' = el + 1) =>
              /\ it'[el'] = LocalName(it[el'])
              /\ \A k \in 1..Len(it) : k # el' => it'[k] = it[k]]_vars
    /\ [][pc' = "find" => el = Len(it)]_vars

\* A document of three elements in two namespaces has gone through the
\* loop.
C14_Witness ==
    /\ pc = "find"
    /\ el = 3
    /\ it = << <<"a">>, <<"b", "c">>, <<"a">> >>

\* C15: the namespace loop raises on no element, whether its tag is in a
\* namespace or not, and leaves every element it took with a local name.
C15_StripNeverRaises ==
    /\ pc # "error"
    /\ \A k \in 1..el : it[k] \in LocalNames

\* C16: a working directory that exists already does not make provisioning
\* fail: gelendosya, sonucdosya and dosyaexistcheck return with dosyadurumu
\* "var" and no FileExistsError ever ends the application, the mkdir of
\* Gelen_Parser in gelenParse.py is passed likewise, and Process goes on
\* from gelendosya to sonucdosya and from there to the call of the Gelen
\* parsing step.
C16_ExistingDirectoryTolerated ==
    /\ [](raised # "FileExistsError")
    /\ [][(ppc = "import gelenParse" /\ "Gelen_Parser" \in dirs) =>
              (ppc' = "import functions" /\ raised' = "none" /\ dirs' = dirs)]_vars
    /\ [][(ppc = "gelendosya" /\ "XMLParser_Gelen" \in dirs) =>
              /\ dosyadurumu'["gelendosya"] = "var"
              /\ raised' = "none"
              /\ ppc' = "sonucdosya"]_vars
    /\ [][(ppc = "sonucdosya" /\ "XMLParser_Sonuc" \in dirs) =>
              /\ dosyadurumu'["sonucdosya"] = "var"
              /\ raised' = "none"
              /\ ppc' = "Gelen_Parse"]_vars
    /\ [][(ppc = "idle" /\ "IthalatConverter" \in dirs
              /\ dosyadurumu' # dosyadurumu) =>
              /\ dosyadurumu'["dosyaexistcheck"] = "var"
              /\ raised' = "none"
              /\ ppc' = "idle"]_vars

\* All three directories were there before; Process stands at the call of
\* the Gelen parsing step.
C16_Witness ==
    /\ ppc = "Gelen_Parse"
    /\ raised = "none"
    /\ dosyadurumu["gelendosya"] = "var"
    /\ dosyadurumu["sonucdosya"] = "var"
    /\ dosyadurumu["dosyaexistcheck"] = "var"
    /\ cwd = "."

\* The sheets of the sections in front of the n-th, in script order.
SheetsBefore(n) ==
    SelectSeq([k \in 1..(n - 1) |-> GelenScript[k].sheet], LAMBDA x : x # "")

\* C17 as stated: the tables of a document reach the writer only when all
\* its sections are flattened: nothing is handed to the writer while a
\* later section is still to be flattened.
C17_FlattenAllThenWrite ==
    writer # <<>> => (sec = Len(GelenScript) /\ pc \in {"save", "done"})

\* C17 as amended: in gelenParse.py each table that is written is handed
\* to the writer as soon as its own section is flattened and before the
\* next section is looked up, so that at any moment the writer holds the
\* sheets of the sections in front of the current one; the writer is saved
\* once, after the last section's table is handed over, and gets nothing
\* after that.
C17_WriteAfterEachSection ==
    /\ [](writer = SheetsBefore(IF pc \in {"save", "done"}
                                THEN Len(GelenScript) + 1 ELSE sec))
    /\ [][writer' # writer =>
              /\ pc = "to_excel"
              /\ df # <<>>
              /\ writer' = Append(writer, Cur.sheet)
              /\ pc' \in {"find", "save"}]_vars
    /\ [](saved => pc = "done")
    /\ [][saved => (saved' /\ writer' = writer)]_vars

\* Three sheets are with the writer and the Kalemler section is not looked
\* up yet.
C17_Witness ==
    /\ pc = "find"
    /\ Cur.tag = "Kalemler"
    /\ writer = <<"Beyanname", "FirmaBilgi", "Ozetbeyanlar">>
    /\ ~saved

\* Control is inside Process, past its first statements.
InProcess ==
    ppc \in {"sonucpath", "excel_writer", "gelendosya", "sonucdosya",
             "Gelen_Parse"}

\* C18: a run of Process shows one message box, at its end, reporting
\* success: no box other than the success box is ever shown, and when
\* control leaves Process the success box has been shown.
C18_OneSuccessBox ==
    /\ [](/\ \A k \in 1..Len(messageboxes) : messageboxes[k] = "TaxTech"
          /\ Len(messageboxes) <= 1)
    /\ [][(InProcess /\ ~InProcess') => messageboxes' = <<"TaxTech">>]_vars

\* C19: a spreadsheet writer is created only when the directory it writes
\* into has been provisioned: every call of excel_writer(), that of Process
\* and that at the import of functions, comes after sonucdosya() returned.
C19_DirectoryBeforeWriter ==
    [][writers' # writers =>
          (dosyadurumu["sonucdosya"] # "unset" /\ "XMLParser_Sonuc" \in dirs)]_vars

\* A singleton section of gelenParse.py has been flattened.
SingletonDone ==
    \/ pc = "to_excel" /\ Cur.kind \in {"children", "first"}
    \/ pc = "unwritten"

\* The element that section treats as its one row.
SingletonRoot ==
    IF Cur.kind = "first" THEN FindFirst(section[1], Cur.row)[1] ELSE section[1]

\* C20: a singleton section gives a table of exactly one data row whose
\* columns come from the depth-first traversal of all descendants of the
\* section root, the traversal of the repeated rows, and this in the same
\* way for BeyannameBilgi, Ozetbeyan and Kiymet.
C20_SingletonAsSoleRow ==
    SingletonDone =>
        /\ df # <<>>
        /\ Len(Frame.data) = 1
        /\ Frame.columns = FirstOccurrences(TagsOf(Descendants(SingletonRoot)))

-----------------------------------------------------------------------------
(* C21 .. C29. *)

\* C21: when the filter loop of Process has run over a listing, every name
\* left in filelistgelen, and in filelistsonuc, ends with ".xml", whatever
\* the order of the listing.
C21_OnlyXmlRemains ==
    /\ \A k \in 1..Len(filelistgelen) : EndsWith(filelistgelen[k], DotXml)
    /\ \A k \in 1..Len(filelistsonuc) : EndsWith(filelistsonuc[k], DotXml)

\* C22: when the Gelen or the Sonuc path fails the validation of Process,
\* the error box is shown and Process stops there: it returns without
\* listing the directory, and so without creating the writer, provisioning
\* a directory or parsing a file.
C22_InvalidPathStops ==
    [][messageboxes' = Append(messageboxes, "Hatali Dosya Uzantisi!!!") =>
          /\ ppc' = "idle"
          /\ raised' = "none"
          /\ UNCHANGED <<filelistgelen, filelistsonuc, writers, dirs,
                         dosyadurumu>>]_vars

\* C23: a path that findfileGelen or findfileSonuc put into a line edit (a
\* file chosen in the dialog with the "*.xml" filter) passes the validation
\* of the Process call that follows: no error box is shown for it.
C23_DialogPathAccepted ==
    [][/\ (ppc = "idle" /\ gelenlineEdit \in DialogPaths \ {<<>>})
              => messageboxes' = messageboxes
       /\ (ppc = "sonucpath" /\ sonucLineEdit \in DialogPaths \ {<<>>})
              => messageboxes' = messageboxes]_vars

\* C24: during Process the progress value only increases, through 5, 10,
\* 40, 50, 75 and 100 in that order, never above the maximum of 100: the
\* step that follows 40, the call of Gelen_Parse, ends with the value at 50,
\* on the way to 100.
C24_ProgressToHundred ==
    [][/\ progressbar' >= progressbar
       /\ progressbar' \in {0, 5, 10, 40, 50, 75, 100}
       /\ (ppc = "Gelen_Parse" /\ ppc' # ppc) => progressbar' = 50]_vars

\* C25: gelendosya, sonucdosya and dosyaexistcheck leave the current working
\* directory as it was, on every exit path: directory created, directory
\* already there, or mkdir or chdir failing with another error.
C25_WorkingDirectoryKept ==
    [][cwd' = cwd]_vars

\* The directory each provisioning function makes on the Desktop.
DirectoryOf(f) ==
    CASE f = "gelendosya" -> "XMLParser_Gelen"
      [] f = "sonucdosya" -> "XMLParser_Sonuc"
      [] f = "dosyaexistcheck" -> "IthalatConverter"

\* The step is a call of f made by Process that returned.
ReturnedInProcess(f) ==
    \/ f = "gelendosya" /\ ppc = "gelendosya" /\ ppc' = "sonucdosya"
    \/ f = "sonucdosya" /\ ppc = "sonucdosya" /\ ppc' = "Gelen_Parse"

\* C26: a returning call of gelendosya, sonucdosya or dosyaexistcheck sets
\* its dosyadurumu to "yok" exactly when the call created the directory and
\* to "var" exactly when the directory was already there; once set, a later
\* call can only set "var"; and the directory exists after the call.
C26_DosyadurumuTellsCreation ==
    [][\A f \in DOMAIN dosyadurumu :
         LET name == DirectoryOf(f)
         IN  /\ (dosyadurumu'[f] = "yok" /\ dosyadurumu[f] # "yok")
                    => name \notin dirs /\ name \in dirs'
             /\ (dosyadurumu'[f] = "var" /\ dosyadurumu[f] # "var")
                    => name \in dirs /\ dirs' = dirs
             /\ (name \notin dirs /\ name \in dirs')
                    => dosyadurumu'[f] = "yok"
             /\ dosyadurumu[f] # "unset"
                    => dosyadurumu'[f] \in {dosyadurumu[f], "var"}
             /\ dosyadurumu'[f] # "unset" => name \in dirs'
             /\ ReturnedInProcess(f)
                    => /\ dosyadurumu'[f] =
                              IF name \in dirs THEN "var" ELSE "yok"
                       /\ name \in dirs']_vars

\* Process called both functions: one created its directory, the other
\* found its directory there, and dosyaexistcheck found its directory after
\* an earlier call.
C26_Witness ==
    /\ ppc = "Gelen_Parse"
    /\ dosyadurumu["gelendosya"] = "yok"
    /\ dosyadurumu["sonucdosya"] = "var"
    /\ dosyadurumu["dosyaexistcheck"] = "var"

\* C27: the Ozetbeyanlar table has one data row per Ozetbeyan element of the
\* Ozetbeyanlar section: N elements, N >= 1, give N rows.
C27_OneRowPerOzetbeyan ==
    (pc = "to_excel" /\ Cur.kind = "first")
        => Len(Frame.data) = Len(FindAll(section[1], Cur.row))

-----------------------------------------------------------------------------
(* beyannameno.py: beyannamenogetter reads the Beyanname_no of every file  *)
(* of a list into a dictionary.  A file name is one string; what is under  *)
(* it on the disk is drawn when the function is called.                    *)

MaxFiles == 3

SonucFileNames == {"1.xml", "2.xml"}

BeyannameNo == <<"B", "e", "y", "a", "n", "n", "a", "m", "e", "_", "n", "o">>

Element(tag, text, kids) == [tag |-> tag, text |-> text, kids |-> kids]

\* The children of a document's root, by local name: Beyanname_no elements
\* with a text, another element, and another element with a Beyanname_no
\* below it.
RootChildren ==
    LET B(t) == Element(BeyannameNo, t, <<>>)
        x    == Element(<<"x">>, None, <<>>)
        xB   == Element(<<"x">>, None, <<B("n1")>>)
    IN  { <<>>, <<x>>, <<xB>>, <<B("n1")>>, <<B("n2")>>, <<x, B("n1")>>,
          <<B("n1"), B("n2")>>, <<B("n2"), xB>> }

RECURSIVE InNamespace(_, _)
\* The element as ElementTree gives it when the document declares u as its
\* default namespace: every tag is "{u}local".
InNamespace(u, e) ==
    [tag  |-> Qualified(u, e.tag),
     text |-> e.text,
     kids |-> [k \in DOMAIN e.kids |-> InNamespace(u, e.kids[k])]]

\* What ElementTree.iterparse(filename) and the loop over it meet: no such
\* file, a file that is not well-formed, or a document, with a default
\* namespace or without one.
DiskContents ==
    { [error |-> "FileNotFoundError", root |-> <<>>],
      [error |-> "ParseError", root |-> <<>>] }
    \cup { [error |-> "none", root |-> <<Element(<<"S">>, None, ks)>>] :
             ks \in RootChildren }
    \cup { [error |-> "none",
            root  |-> <<InNamespace(<<"u">>, Element(<<"S">>, None, ks))>>] :
             ks \in RootChildren }

\* The dictionaries passed in: the empty one of beyannameno.py line 11, one
\* with an entry of another key, one with an entry of a listed file.
PassedDicts ==
    { EmptyDict,
      [keys |-> <<"0.xml">>, vals |-> <<"n0">>],
      [keys |-> <<"1.xml">>, vals |-> <<"n0">>] }

RECURSIVE Stripped(_)
\* The element after "el.tag = el.tag.split('}', 1)[1]" ran over it and
\* everything below it.
Stripped(e) ==
    [tag  |-> Split(e.tag, "}")[2],
     text |-> e.text,
     kids |-> [k \in DOMAIN e.kids |-> Stripped(e.kids[k])]]

RECURSIVE Strippable(_)
\* The subscript [1] finds a second part in every tag of the element.
Strippable(e) ==
    /\ Len(Split(e.tag, "}")) >= 2
    /\ \A k \in DOMAIN e.kids : Strippable(e.kids[k])

\* A find that looks at every descendant instead of the root's children.
FindBeyannameNoAnywhere(r) ==
    LET hits == SelectSeq(Iter(r), LAMBDA c : c.tag = BeyannameNo)
    IN  IF hits = <<>> THEN <<>> ELSE <<Head(hits)>>

\* root.find('Beyanname_no')
FindBeyannameNo(r) == FindFirst(r, BeyannameNo)

\* beyannamenogetter(filelistsonuc, sonuc_dict) is called.
InitBeyanname ==
    /\ NoApp
    /\ NoScript
    /\ root = <<>>
    /\ df_vergitop = <<>>
    /\ it = <<>>
    /\ el = 0
    /\ disk \in [SonucFileNames -> DiskContents]
    /\ \E n \in 0..MaxFiles : filelist \in [1..n -> SonucFileNames]
    /\ nfile = 0
    /\ sonuc_dict \in PassedDicts
    /\ passed = sonuc_dict
    /\ bpc = "for"

\* One turn of "for filename in filelistsonuc", lines 16-24.
BeyannameFile ==
    /\ bpc = "for"
    /\ nfile < Len(filelist)
    /\ nfile' = nfile + 1
    /\ LET filename == filelist[nfile + 1]
           parsed   == disk[filename]
       IN  IF parsed.error # "none"
           THEN bpc' = parsed.error /\ UNCHANGED sonuc_dict
           ELSE IF ~Strippable(parsed.root[1])
           THEN bpc' = "IndexError" /\ UNCHANGED sonuc_dict
           ELSE LET beyanname_no == FindBeyannameNo(Stripped(parsed.root[1]))
                IN  IF beyanname_no = <<>>
                    THEN bpc' = "AttributeError" /\ UNCHANGED sonuc_dict
                    ELSE /\ sonuc_dict' =
                              DictSet(sonuc_dict, filename, beyanname_no[1].text)
                         /\ UNCHANGED bpc
    /\ UNCHANGED <<disk, filelist, passed, around>>

\* return sonuc_dict, line 25.
BeyannameReturn ==
    /\ bpc = "for"
    /\ nfile = Len(filelist)
    /\ bpc' = "returned"
    /\ UNCHANGED <<disk, filelist, nfile, sonuc_dict, passed, around>>

NextBeyanname ==
    \/ BeyannameFile
    \/ BeyannameReturn

SpecBeyanname == InitBeyanname /\ [][NextBeyanname]_vars

\* The value the dictionary d has under the key k.
DictGet(d, k) == d.vals[IndexOf(k, d.keys)]

\* The names of s that are not in t, in the order of s.
Without(s, t) == SelectSeq(s, LAMBDA x : ~InSeq(x, t))

\* The children of the document's root whose local name is Beyanname_no,
\* in document order.
RootLevelNos(c) ==
    SelectSeq(c.root[1].kids,
              LAMBDA e : \/ e.tag = BeyannameNo
                         \/ \E u \in NamespaceNames :
                                e.tag = Qualified(u, BeyannameNo))

\* C28: when beyannamenogetter returns, the dictionary has exactly one
\* entry for every distinct file name of the list, its value the text of
\* that file's root-level Beyanname_no; the entries it had under other keys
\* are as they were; and the new keys stand in the order of the list.
C28_OneEntryPerFile ==
    bpc = "returned" =>
        /\ Distinct(sonuc_dict.keys)
        /\ \A k \in 1..Len(filelist) :
              /\ InSeq(filelist[k], sonuc_dict.keys)
              /\ disk[filelist[k]].error = "none"
              /\ RootLevelNos(disk[filelist[k]]) # <<>>
              /\ DictGet(sonuc_dict, filelist[k]) =
                     Head(RootLevelNos(disk[filelist[k]])).text
        /\ \A k \in 1..Len(passed.keys) :
              ~InSeq(passed.keys[k], filelist) =>
                  /\ InSeq(passed.keys[k], sonuc_dict.keys)
                  /\ DictGet(sonuc_dict, passed.keys[k]) = passed.vals[k]
        /\ sonuc_dict.keys =
              passed.keys \o Without(FirstOccurrences(filelist), passed.keys)

\* A list of two files, one of them named twice, read into a dictionary
\* that had an entry under another key.
C28_Witness ==
    /\ bpc = "returned"
    /\ filelist = <<"2.xml", "1.xml", "2.xml">>
    /\ passed.keys = <<"0.xml">>
    /\ sonuc_dict.keys = <<"0.xml", "2.xml", "1.xml">>
    /\ sonuc_dict.vals = <<"n0", "n2", "n1">>

\* C29: when beyannamenogetter fails on a file, the dictionary passed in is
\* as it was before the call: nothing of the files read before the failing
\* one is left in it.
C29_FailureLeavesDictUntouched ==
    bpc \notin {"none", "for", "returned"} => sonuc_dict = passed

====
